---- MODULE Spec2Model ----
(***************************************************************************)
(* Model of the G-code skew correction tool (correction.py and its driver  *)
(* cnc_correction.py): the calibration solver (configure ->                *)
(* _parse_parameters -> _calculate_matrix) and the line transformer        *)
(* (parse_file -> _parse_line -> translate / _validate).                   *)
(*                                                                         *)
(* Numbers.  A float is modelled by an exact rational with a sign bit and  *)
(* a non-finite flag: [nan, neg, n, d] stands for (-1)^neg * n/d, so that  *)
(* -0.0 and 0.0 are different floats with the same value.  The flag nan    *)
(* stands for every non-finite result (numpy yields nan or +-inf with a    *)
(* RuntimeWarning, never an exception).  Square roots are taken exactly;   *)
(* the calibration samples are chosen so that every root the solver takes  *)
(* is rational.                                                            *)
(*                                                                         *)
(* Text.  A line of text is a sequence of characterised items: a token     *)
(* [c0, rest] (its first character and the remainder after it) or a        *)
(* whitespace item SP.  str.split() drops the whitespace items,            *)
(* ' '.join() puts exactly one between two tokens.                         *)
(***************************************************************************)
EXTENDS Integers, Sequences, FiniteSets, TLC

\* ------------------------------------------------------------------ bounds
\* number of files on the command line of one run of the driver
MaxFiles == 2
\* number of lines of a source file
MaxLines == 2

\* --------------------------------------------------------------- constants
\* np.round(..., decimals=3) and the format specification ":.3f"
Decimals == 3

XYZ == <<"X", "Y", "Z">>

\* ------------------------------------------------------------------ floats
RECURSIVE GCD(_, _)
GCD(a, b) ==
    IF b = 0 THEN a ELSE GCD(b, a % b)

RECURSIVE Pow10(_)
Pow10(k) ==
    IF k = 0 THEN 1 ELSE 10 * Pow10(k - 1)

Abs(i) ==
    IF i < 0 THEN -i ELSE i

NaN ==
    [nan |-> TRUE, neg |-> FALSE, n |-> 0, d |-> 1]

\* the float (-1)^neg * n/d, in lowest terms
Mk(neg, n, d) ==
    LET g == GCD(n, d)
    IN  [nan |-> FALSE, neg |-> neg, n |-> n \div g, d |-> d \div g]

\* the float of the signed fraction sn/d; an exact zero is +0.0
Frac(sn, d) ==
    Mk(sn < 0, Abs(sn), d)

Zero ==
    Frac(0, 1)

One ==
    Frac(1, 1)

\* signed numerator
SN(x) ==
    IF x.neg THEN -x.n ELSE x.n

IsZero(x) ==
    ~x.nan /\ x.n = 0

FNeg(x) ==
    IF x.nan THEN NaN ELSE [x EXCEPT !.neg = ~x.neg]

\* IEEE addition: an exact zero sum is +0.0 unless both terms are -0.0
FAdd(x, y) ==
    IF x.nan \/ y.nan THEN NaN
    ELSE IF IsZero(x) /\ IsZero(y) THEN Mk(x.neg /\ y.neg, 0, 1)
    ELSE LET g == GCD(x.d, y.d)
         IN  Frac(SN(x) * (y.d \div g) + SN(y) * (x.d \div g), (x.d \div g) * y.d)

FSub(x, y) ==
    FAdd(x, FNeg(y))

FMul(x, y) ==
    IF x.nan \/ y.nan THEN NaN
    ELSE LET g == GCD(x.n, y.d)
             h == GCD(y.n, x.d)
         IN  Mk(x.neg # y.neg, (x.n \div g) * (y.n \div h),
                (x.d \div h) * (y.d \div g))

\* np.float64 division: a zero divisor gives a non-finite value, no exception
FDiv(x, y) ==
    IF x.nan \/ y.nan \/ y.n = 0 THEN NaN
    ELSE Mk(x.neg # y.neg, x.n * y.d, x.d * y.n)

\* comparisons with nan are False
FLt(x, y) ==
    ~x.nan /\ ~y.nan /\ SN(x) * y.d < SN(y) * x.d

FGt(x, y) ==
    FLt(y, x)

ISqrt(k) ==
    CHOOSE r \in 0..k : r * r <= k /\ (r + 1) * (r + 1) > k

\* np.sqrt: nan for a negative argument; exact on the squares of rationals
FSqrt(x) ==
    IF x.nan \/ (x.neg /\ x.n # 0) THEN NaN
    ELSE Mk(x.neg, ISqrt(x.n), ISqrt(x.d))

\* round half to even of a / b, for a >= 0 and b > 0
RoundHalfEven(a, b) ==
    LET q == a \div b
        r == a % b
    IN  IF 2 * r < b THEN q
        ELSE IF 2 * r > b THEN q + 1
        ELSE IF q % 2 = 0 THEN q ELSE q + 1

\* np.round(x, decimals=3): the sign bit is kept, so -0.0004 rounds to -0.0
Round3(x) ==
    IF x.nan THEN NaN
    ELSE Mk(x.neg,
            (x.n \div x.d) * Pow10(Decimals)
                + RoundHalfEven((x.n % x.d) * Pow10(Decimals), x.d),
            Pow10(Decimals))

\* -------------------------------------------------------------------- text
\* the remainder of a token after its first character:
\* a signed decimal literal with dp digits after the point, or any other text
Dec(neg, mag, dp) ==
    [kind |-> "dec", neg |-> neg, mag |-> mag, dp |-> dp, s |-> ""]

Txt(s) ==
    [kind |-> "txt", neg |-> FALSE, mag |-> 0, dp |-> 0, s |-> s]

Tok(c0, rest) ==
    [c0 |-> c0, rest |-> rest]

\* one whitespace character
SP ==
    Tok(" ", Txt(""))

IsSpace(item) ==
    item.c0 = " "

\* float(token[1:]): the value of a decimal literal, nan for the text "nan",
\* ValueError (ok = FALSE) for the empty string and any other text
Float(rest) ==
    IF rest.kind = "dec"
    THEN [ok |-> TRUE, v |-> Mk(rest.neg, rest.mag, Pow10(rest.dp))]
    ELSE IF rest.s = "nan" THEN [ok |-> TRUE, v |-> NaN]
    ELSE [ok |-> FALSE, v |-> NaN]

\* f"{value:.3f}": three decimals, a minus sign iff the sign bit is set, "nan"
Format3(x) ==
    IF x.nan THEN Txt("nan")
    ELSE Dec(x.neg, RoundHalfEven(x.n * Pow10(Decimals), x.d), Decimals)

\* line.split(): the tokens of a line, in order, whitespace dropped
Split(line) ==
    SelectSeq(line, LAMBDA item : ~IsSpace(item))

\* ' '.join(tokens): a single space between two tokens, none around them
RECURSIVE Join(_)
Join(tokens) ==
    IF Len(tokens) = 0 THEN <<>>
    ELSE IF Len(tokens) = 1 THEN tokens
    ELSE <<Head(tokens), SP>> \o Join(Tail(tokens))

\* ---------------------------------------------------------------- geometry
\* an angle is kept as its cosine and sine
Angle(c, s) ==
    [c |-> c, s |-> s]

\* np.pi / 2
HalfPi ==
    Angle(Zero, One)

\* np.arccos: nan outside [-1, 1] (RuntimeWarning only)
ArcCos(z) ==
    IF z.nan \/ z.n > z.d THEN Angle(NaN, NaN)
    ELSE Angle(z, FSqrt(FSub(One, FMul(z, z))))

\* np.arctan2(h, x): the angle of the point (x, h); 0 at the origin
ArcTan2(h, x) ==
    IF IsZero(h) /\ IsZero(x) THEN Angle(One, Zero)
    ELSE LET r == FSqrt(FAdd(FMul(h, h), FMul(x, x)))
         IN  Angle(FDiv(x, r), FDiv(h, r))

Cos(a) ==
    a.c

Sin(a) ==
    a.s

Vec3(x, y, z) ==
    <<x, y, z>>

ZeroMatrix ==
    <<Vec3(Zero, Zero, Zero), Vec3(Zero, Zero, Zero), Vec3(Zero, Zero, Zero)>>

NaNMatrix ==
    <<Vec3(NaN, NaN, NaN), Vec3(NaN, NaN, NaN), Vec3(NaN, NaN, NaN)>>

HasNaN(M) ==
    \E i \in 1..3 : \E j \in 1..3 : M[i][j].nan

\* np.linalg.inv of the basis matrix, which is upper triangular with M[1][1] = 1:
\* the LU factorisation meets its diagonal entries as pivots and LinAlgError
\* ("Singular matrix") is raised on an exactly zero pivot; a matrix holding a
\* non-finite entry is inverted without complaint into non-finite entries.
Inv(M) ==
    LET a == M[1][1]
        b == M[1][2]
        c == M[1][3]
        d == M[2][1]
        e == M[2][2]
        f == M[2][3]
        g == M[3][1]
        h == M[3][2]
        i == M[3][3]
        m(x, y) == FMul(x, y)
        det == FAdd(FSub(m(a, FSub(m(e, i), m(f, h))),
                         m(b, FSub(m(d, i), m(f, g)))),
                    m(c, FSub(m(d, h), m(e, g))))
        q(x, y, u, v) == FDiv(FSub(m(x, y), m(u, v)), det)
    IN  IF IsZero(e) \/ (~e.nan /\ IsZero(i))
        THEN [raised |-> TRUE, T |-> ZeroMatrix]
        ELSE IF HasNaN(M)
        THEN [raised |-> FALSE, T |-> NaNMatrix]
        ELSE [raised |-> FALSE,
              T |-> <<Vec3(q(e, i, f, h), q(c, h, b, i), q(b, f, c, e)),
                      Vec3(q(f, g, d, i), q(a, i, c, g), q(c, d, a, f)),
                      Vec3(q(d, h, e, g), q(b, g, a, h), q(a, e, b, d))>>]

\* _parse_parameters, lines 80-105: the three angles from the measurements.
\* Python's "/" raises ZeroDivisionError on a zero side_x or side_y.
parse_parameters(cfg) ==
    LET a == cfg.side_x
        b == cfg.side_y
        q == cfg.diagonal_from_x0y0
        h == Frac(cfg.height, 1)
    IN  IF a = 0 \/ b = 0
        THEN [raised |-> TRUE, angle_ab |-> HalfPi, angle_ac |-> HalfPi,
              angle_bc |-> HalfPi]
        ELSE LET w == Frac(q * q - (a * a + b * b), 2 * a)
             IN  [raised |-> FALSE,
                  angle_ab |-> ArcCos(FDiv(w, Frac(b, 1))),
                  angle_ac |-> ArcTan2(h, Frac(cfg.z_to_x, 1)),
                  angle_bc |-> ArcTan2(h, Frac(cfg.z_to_y, 1))]

\* the basis matrix of _calculate_matrix, lines 114-120
Basis(angle_ab, angle_ac, angle_bc) ==
    LET temp_x3 == Cos(angle_ac)
        temp_y3 == FDiv(FSub(Cos(angle_bc), FMul(temp_x3, Cos(angle_ab))),
                        Sin(angle_ab))
    IN  <<Vec3(One, Cos(angle_ab), Cos(angle_ac)),
          Vec3(Zero, Sin(angle_ab), temp_y3),
          Vec3(Zero, Zero,
               FSqrt(FSub(FSub(One, FMul(temp_x3, temp_x3)),
                          FMul(temp_y3, temp_y3))))>>

\* _calculate_matrix: T is the inverse of the basis matrix
calculate_matrix(angle_ab, angle_ac, angle_bc) ==
    Inv(Basis(angle_ab, angle_ac, angle_bc))

\* -------------------------------------------------------- line transformer
AxisIndex(letter) ==
    CHOOSE i \in 1..3 : XYZ[i] = letter

IsAxisLetter(c) ==
    \E i \in 1..3 : XYZ[i] = c

\* one row of the matrix product T * point
Dot(row, v) ==
    FAdd(FAdd(FMul(row[1], v[1]), FMul(row[2], v[2])), FMul(row[3], v[3]))

\* translate, line 124
translate(M, point) ==
    Vec3(Dot(M[1], point), Dot(M[2], point), Dot(M[3], point))

Round3Vec(v) ==
    Vec3(Round3(v[1]), Round3(v[2]), Round3(v[3]))

Warning(kind, i, xyz, limits) ==
    [kind |-> kind, axis |-> XYZ[i], value |-> Format3(xyz[i]), bound |-> limits[i]]

\* mutant of validate: a value equal to a limit is reported as well
validate_inclusive(xyz, upper, lower) ==
    LET above == SelectSeq(<<1, 2, 3>>, LAMBDA i : ~FLt(xyz[i], upper[i]))
        below == SelectSeq(<<1, 2, 3>>, LAMBDA i : ~FGt(xyz[i], lower[i]))
    IN  [k \in 1..Len(above) |-> Warning("above", above[k], xyz, upper)]
        \o [k \in 1..Len(below) |-> Warning("below", below[k], xyz, lower)]

\* _validate, lines 126-138: the warnings logged, in the order they are logged
validate(xyz, upper, lower) ==
    LET above == SelectSeq(<<1, 2, 3>>, LAMBDA i : FGt(xyz[i], upper[i]))
        below == SelectSeq(<<1, 2, 3>>, LAMBDA i : FLt(xyz[i], lower[i]))
    IN  [k \in 1..Len(above) |-> Warning("above", above[k], xyz, upper)]
        \o [k \in 1..Len(below) |-> Warning("below", below[k], xyz, lower)]

\* list.insert(index, x)
Insert(s, index, x) ==
    LET j == IF index > Len(s) THEN Len(s) ELSE index
    IN  SubSeq(s, 1, j) \o <<x>> \o SubSeq(s, j + 1, Len(s))

\* mutant of ScanTokens: the else of the loop is lost, an axis token stays in
\* tokens_out as well
RECURSIVE ScanTokens_keep(_, _, _, _, _)
ScanTokens_keep(tokens, i, orig, out, low) ==
    IF i > Len(tokens)
    THEN [raised |-> FALSE, orig |-> orig, out |-> out, low |-> low]
    ELSE LET token == tokens[i]
         IN  IF IsAxisLetter(token.c0)
             THEN LET low2 == IF low < 0 THEN i - 1 ELSE low
                      value == Float(token.rest)
                  IN  IF ~value.ok
                      THEN [raised |-> TRUE, orig |-> orig, out |-> out, low |-> low2]
                      ELSE ScanTokens_keep(tokens, i + 1,
                                           [orig EXCEPT ![AxisIndex(token.c0)] = value.v],
                                           Append(out, token), low2)
             ELSE ScanTokens_keep(tokens, i + 1, orig, Append(out, token), low)

\* the token loop of _parse_line, lines 145-154, from token i on.
\* low is coordinate_low_index (0-based, -1 while no axis token was met);
\* raised: float() raised ValueError, the loop is left with orig as it is.
RECURSIVE ScanTokens(_, _, _, _, _)
ScanTokens(tokens, i, orig, out, low) ==
    IF i > Len(tokens)
    THEN [raised |-> FALSE, orig |-> orig, out |-> out, low |-> low]
    ELSE LET token == tokens[i]
         IN  IF IsAxisLetter(token.c0)
             THEN LET low2 == IF low < 0 THEN i - 1 ELSE low
                      value == Float(token.rest)
                  IN  IF ~value.ok
                      THEN [raised |-> TRUE, orig |-> orig, out |-> out, low |-> low2]
                      ELSE ScanTokens(tokens, i + 1,
                                      [orig EXCEPT ![AxisIndex(token.c0)] = value.v],
                                      out, low2)
             ELSE ScanTokens(tokens, i + 1, orig, Append(out, token), low)

\* the insertion loop of _parse_line, lines 164-172
InsertCoordinates(out, low, xyz) ==
    Insert(Insert(Insert(out, low, Tok(XYZ[1], Format3(xyz[1]))),
                  low + 1, Tok(XYZ[2], Format3(xyz[2]))),
           low + 2, Tok(XYZ[3], Format3(xyz[3])))

\* mutant of parse_line: the nominal position starts at zero on every line,
\* an axis the line leaves out is not held over
parse_line_no_hold(line, orig, trans, M, upper, lower) ==
    LET scan == ScanTokens(Split(line), 1, Vec3(Zero, Zero, Zero), <<>>, -1)
        new_xyz_translated == Round3Vec(translate(M, scan.orig))
    IN  IF scan.raised
        THEN [raised |-> TRUE, orig |-> scan.orig, trans |-> trans,
              out |-> <<>>, log |-> <<>>]
        ELSE IF scan.low >= 0
        THEN [raised |-> FALSE, orig |-> scan.orig, trans |-> new_xyz_translated,
              out |-> Join(InsertCoordinates(scan.out, scan.low, new_xyz_translated)),
              log |-> validate(new_xyz_translated, upper, lower)]
        ELSE [raised |-> FALSE, orig |-> scan.orig, trans |-> trans,
              out |-> Join(scan.out),
              log |-> validate(new_xyz_translated, upper, lower)]

\* _parse_line, lines 140-175, on the object's fields orig (xyz_original),
\* trans (xyz_translated), M (T) and the limits: the fields after the call,
\* the line returned, the warnings logged; raised: the call ended in ValueError
parse_line(line, orig, trans, M, upper, lower) ==
    LET scan == ScanTokens(Split(line), 1, orig, <<>>, -1)
        new_xyz_translated == Round3Vec(translate(M, scan.orig))
    IN  IF scan.raised
        THEN [raised |-> TRUE, orig |-> scan.orig, trans |-> trans,
              out |-> <<>>, log |-> <<>>]
        ELSE IF scan.low >= 0
        THEN [raised |-> FALSE, orig |-> scan.orig, trans |-> new_xyz_translated,
              out |-> Join(InsertCoordinates(scan.out, scan.low, new_xyz_translated)),
              log |-> validate(new_xyz_translated, upper, lower)]
        ELSE [raised |-> FALSE, orig |-> scan.orig, trans |-> trans,
              out |-> Join(scan.out),
              log |-> validate(new_xyz_translated, upper, lower)]

\* mutant of init_coordinates: the coordinates are created once and kept
init_coordinates_keep(orig, trans) ==
    IF orig = <<>>
    THEN [orig |-> Vec3(Zero, Zero, Zero), trans |-> Vec3(NaN, NaN, NaN)]
    ELSE [orig |-> orig, trans |-> trans]

\* _init_coordinates, lines 54-59
init_coordinates(orig, trans) ==
    [orig |-> Vec3(Zero, Zero, Zero), trans |-> Vec3(NaN, NaN, NaN)]

\* mutant of write: the line goes right after the header
write_first(lines, line_out) ==
    SubSeq(lines, 1, 3) \o <<line_out>> \o SubSeq(lines, 4, Len(lines))

\* f_out.write(line_out + '\n'), line 192: the line goes to the end of the file
write(lines, line_out) ==
    Append(lines, line_out)

\* the three lines parse_file writes first, lines 184-186; the paths are those
\* the driver passes (absolute, no whitespace), the clock is not modelled
Header ==
    << <<Tok(";", Txt("Izvorna")), SP, Tok("d", Txt("atoteka")), SP, SP, SP,
         Tok(":", Txt("")), SP, Tok("/", Txt("file_in_path"))>>,
       <<Tok(";", Txt("Ustvarjena")), SP, Tok("d", Txt("atoteka:")), SP,
         Tok("/", Txt("file_out_path"))>>,
       <<Tok(";", Txt("Datum")), SP, Tok("o", Txt("bdelave")), SP, SP, SP, SP, SP,
         Tok(":", Txt("")), SP, Tok("2", Txt("026/11/03")), SP,
         Tok("1", Txt("9:42:00"))>> >>

\* ----------------------------------------------------------------- samples
\* settings files: the measurements of cfg['translation'] and cfg['limits']
Setting(a, b, q, h, x, y, upper, lower) ==
    [loaded |-> TRUE, side_x |-> a, side_y |-> b, diagonal_from_x0y0 |-> q,
     height |-> h, z_to_x |-> x, z_to_y |-> y, upper |-> upper, lower |-> lower]

\* a right angle in every plane: the correction matrix is the identity
SRight ==
    Setting(3, 4, 5, 1, 0, 0, <<5, 20, 500>>, <<-10, -10, -10>>)

\* z leans towards x: cos(angle_ac) = 5/13
SLeanZ ==
    Setting(3, 4, 5, 12, 5, 0, <<500, 20, 5>>, <<-10, -10, -10>>)

\* x and y are not square: cos(angle_ab) = 3/5; the two limit lists are
\* exchanged in the settings file
SSkewXY ==
    Setting(15, 7, 20, 1, 0, 0, <<-10, -10, -10>>, <<500, 500, 500>>)

\* a diagonal longer than the two sides together: |w/b| > 1
SNoTriangle ==
    Setting(3, 4, 8, 1, 0, 0, <<500, 20, 500>>, <<-10, -10, -10>>)

\* a diagonal as long as the two sides together: angle_ab = 0
SFlat ==
    Setting(3, 4, 7, 1, 0, 0, <<500, 20, 500>>, <<-10, -10, -10>>)

\* z leaning too far for the frame: the row-2 radicand is -7/25
SNoHeight ==
    Setting(3, 4, 5, 3, 4, 4, <<500, 20, 500>>, <<-10, -10, -10>>)

\* side_x missing its length
SZeroSide ==
    Setting(0, 4, 5, 1, 0, 0, <<500, 20, 500>>, <<-10, -10, -10>>)

Settings ==
    {SRight, SLeanZ, SSkewXY, SNoTriangle, SFlat, SNoHeight, SZeroSide}

Num(c0, mag) ==
    Tok(c0, Dec(FALSE, mag, 0))

\* "G1 X10.000 Y20.000 F100"
LnMove ==
    Join(<<Num("G", 1), Tok("X", Dec(FALSE, 10000, 3)),
           Tok("Y", Dec(FALSE, 20000, 3)), Num("F", 100)>>)

\* "G0  X-0.0004 ": runs of whitespace, a value that rounds to -0.000
LnSmall ==
    <<Num("G", 0), SP, SP, Tok("X", Dec(TRUE, 4, 4)), SP>>

\* " M3 S100": no token starts with an axis letter
LnNoAxis ==
    <<SP, Num("M", 3), SP, Num("S", 100)>>

\* "Z5 X2.5 G1 Z1.0005": an axis given twice, a tie at the third decimal
LnRepeat ==
    Join(<<Num("Z", 5), Tok("X", Dec(FALSE, 25, 1)), Num("G", 1),
           Tok("Z", Dec(FALSE, 10005, 4))>>)

\* "G1 Zero": an axis letter followed by text that is no number
LnBadOnly ==
    Join(<<Num("G", 1), Tok("Z", Txt("ero"))>>)

\* "X5 Y M3": an axis word, then an axis letter alone
LnBadAfter ==
    Join(<<Num("X", 5), Tok("Y", Txt("")), Num("M", 3)>>)

InputLines ==
    {LnMove, LnSmall, LnNoAxis, LnRepeat, LnBadOnly, LnBadAfter}

\* the contents a source file may have
FileContents ==
    UNION {[1..k -> InputLines] : k \in 0..MaxLines}

\* ------------------------------------------------------------------- state
VARIABLES
    pc,                 \* where the driver is: "init", "main", "lines", "done", "crashed"
    err,                \* the exception that ended the run, "" if none
    cfg,                \* Correction.cfg
    angle_ab,
    angle_ac,
    angle_bc,
    T,
    xyz_upper_limits,
    xyz_lower_limits,
    xyz_original,       \* <<>> until _init_coordinates creates the attribute
    xyz_translated,
    n_files,            \* parse_file calls that returned
    f_in,               \* the lines read from the source file, <<>> outside parse_file
    idx,                \* the line the loop of parse_file is at, 0 outside parse_file
    f_out,              \* the destination file of the latest call: [exists, lines]
    opened,             \* history: the open that failed, the destination and the
                        \* coordinates as they were when that call was entered
    carried,            \* history: the axes the call before left at a nominal value other than 0
    call,               \* history: the latest _parse_line call of the current
                        \* parse_file call and the fields it started from
    log,                \* the warnings logged by that _parse_line call
    again               \* the current source file is the destination file of the call before

vars ==
    <<pc, err, cfg, angle_ab, angle_ac, angle_bc, T, xyz_upper_limits,
      xyz_lower_limits, xyz_original, xyz_translated, n_files, f_in, idx, f_out,
      opened, carried, call, log, again>>

NoFile ==
    [exists |-> FALSE, lines |-> <<>>]

\* a destination left by an earlier run of the tool
OldFile ==
    [exists |-> TRUE, lines |-> <<LnNoAxis>>]

NoCall ==
    [called |-> FALSE, raised |-> FALSE, line |-> <<>>, orig |-> <<>>,
     trans |-> <<>>, out |-> <<>>]

NoOpen ==
    [failed |-> "", dest |-> NoFile, orig |-> <<>>, trans |-> <<>>]

FloatVec(ints) ==
    [i \in 1..Len(ints) |-> Frac(ints[i], 1)]

\* Correction.__init__, lines 38-51, before it calls configure
Init ==
    /\ pc = "init"
    /\ err = ""
    /\ cfg = [loaded |-> FALSE, side_x |-> 0, side_y |-> 0, diagonal_from_x0y0 |-> 0,
              height |-> 0, z_to_x |-> 0, z_to_y |-> 0, upper |-> <<>>, lower |-> <<>>]
    /\ angle_ab = HalfPi
    /\ angle_ac = HalfPi
    /\ angle_bc = HalfPi
    /\ T = ZeroMatrix
    /\ xyz_upper_limits = Vec3(Zero, Zero, Zero)
    /\ xyz_lower_limits = Vec3(Zero, Zero, Zero)
    /\ xyz_original = <<>>
    /\ xyz_translated = <<>>
    /\ n_files = 0
    /\ f_in = <<>>
    /\ idx = 0
    /\ f_out = NoFile
    /\ opened = NoOpen
    /\ carried = {}
    /\ call = NoCall
    /\ log = <<>>
    /\ again = FALSE

\* configure, lines 61-65, called by __init__ with the settings file the driver
\* names: _load_parameters, _parse_parameters, _calculate_matrix.  An exception
\* ends the driver.  np.linalg.inv raises after T was assigned the basis matrix.
Configure ==
    /\ pc = "init"
    /\ \E s \in Settings :
         LET p == parse_parameters(s)
             m == calculate_matrix(p.angle_ab, p.angle_ac, p.angle_bc)
         IN  /\ cfg' = s
             /\ IF p.raised
                THEN /\ pc' = "crashed"
                     /\ err' = "ZeroDivisionError"
                     /\ UNCHANGED <<angle_ab, angle_ac, angle_bc, T,
                                    xyz_upper_limits, xyz_lower_limits>>
                ELSE /\ angle_ab' = p.angle_ab
                     /\ angle_ac' = p.angle_ac
                     /\ angle_bc' = p.angle_bc
                     /\ xyz_upper_limits' = FloatVec(s.upper)
                     /\ xyz_lower_limits' = FloatVec(s.lower)
                     /\ IF m.raised
                        THEN /\ T' = Basis(p.angle_ab, p.angle_ac, p.angle_bc)
                             /\ pc' = "crashed"
                             /\ err' = "LinAlgError"
                        ELSE /\ T' = m.T
                             /\ pc' = "main"
                             /\ err' = ""
    /\ UNCHANGED <<xyz_original, xyz_translated, n_files, f_in, idx, f_out,
                   opened, carried, call, log, again>>

\* parse_file, lines 179-189: the coordinates are initialised, both files are
\* opened, the header is written and the source is read.  The source is any
\* sample file, or the file the call before has written.
ParseFileBegin ==
    /\ pc = "main"
    /\ n_files < MaxFiles
    /\ \E content \in FileContents \cup {f_out.lines} :
         /\ content \in FileContents \/ (n_files > 0 /\ f_out.exists)
         /\ f_in' = content
         /\ again' = (content \notin FileContents)
    /\ carried' = IF xyz_original = <<>> THEN {}
                   ELSE {a \in 1..3 : ~IsZero(xyz_original[a])}
    /\ xyz_original' = init_coordinates(xyz_original, xyz_translated).orig
    /\ xyz_translated' = init_coordinates(xyz_original, xyz_translated).trans
    /\ f_out' = [exists |-> TRUE, lines |-> Header]
    /\ idx' = 1
    /\ pc' = "lines"
    /\ call' = NoCall
    /\ log' = <<>>
    /\ opened' = NoOpen
    /\ UNCHANGED <<err, cfg, angle_ab, angle_ac, angle_bc, T, xyz_upper_limits,
                   xyz_lower_limits, n_files>>

\* parse_file, lines 179-180, when open() raises OSError on the source or on
\* the destination: the coordinates were initialised before, no file is
\* created or truncated (the source is opened first, the destination fails to
\* open), and the exception ends the driver
ParseFileOpenFails ==
    /\ pc = "main"
    /\ n_files < MaxFiles
    /\ \E which \in {"source", "destination"} : \E dest \in {NoFile, OldFile} :
         /\ opened' = [failed |-> which, dest |-> dest,
                        orig |-> xyz_original, trans |-> xyz_translated]
         /\ f_out' = dest
    /\ xyz_original' = init_coordinates(xyz_original, xyz_translated).orig
    /\ xyz_translated' = init_coordinates(xyz_original, xyz_translated).trans
    /\ pc' = "crashed"
    /\ err' = "OSError"
    /\ UNCHANGED <<cfg, angle_ab, angle_ac, angle_bc, T, xyz_upper_limits,
                   xyz_lower_limits, n_files, f_in, idx, carried, call, log, again>>

\* one turn of the loop of parse_file, lines 190-192: _parse_line on the next
\* line, its result written to the destination; ValueError ends the driver
\* with the destination holding what was written so far
ParseLineStep ==
    /\ pc = "lines"
    /\ idx <= Len(f_in)
    /\ LET r == parse_line(f_in[idx], xyz_original, xyz_translated, T,
                           xyz_upper_limits, xyz_lower_limits)
       IN  /\ call' = [called |-> TRUE, raised |-> r.raised, line |-> f_in[idx],
                       orig |-> xyz_original, trans |-> xyz_translated,
                       out |-> r.out]
           /\ xyz_original' = r.orig
           /\ xyz_translated' = r.trans
           /\ log' = r.log
           /\ IF r.raised
              THEN /\ pc' = "crashed"
                   /\ err' = "ValueError"
                   /\ UNCHANGED <<f_out, idx>>
              ELSE /\ f_out' = [f_out EXCEPT !.lines = write(@, r.out)]
                   /\ idx' = idx + 1
                   /\ UNCHANGED <<pc, err>>
    /\ UNCHANGED <<cfg, angle_ab, angle_ac, angle_bc, T, xyz_upper_limits,
                   xyz_lower_limits, n_files, f_in, opened, carried, again>>

\* the loop of parse_file is over: both files are closed and the call
\* returns; its locals are gone, the fields and the destination file stay
ParseFileEnd ==
    /\ pc = "lines"
    /\ idx > Len(f_in)
    /\ pc' = "main"
    /\ n_files' = n_files + 1
    /\ f_in' = <<>>
    /\ idx' = 0
    /\ call' = NoCall
    /\ log' = <<>>
    /\ again' = FALSE
    /\ carried' = {}
    /\ UNCHANGED <<err, cfg, angle_ab, angle_ac, angle_bc, T, xyz_upper_limits,
                   xyz_lower_limits, xyz_original, xyz_translated, f_out, opened>>

\* the loop of the driver is over, cnc_correction.py lines 20-26
MainExit ==
    /\ pc = "main"
    /\ n_files > 0
    /\ pc' = "done"
    /\ UNCHANGED <<err, cfg, angle_ab, angle_ac, angle_bc, T, xyz_upper_limits,
                   xyz_lower_limits, xyz_original, xyz_translated, n_files, f_in,
                   idx, f_out, opened, carried, call, log, again>>

Next ==
    \/ Configure
    \/ ParseFileBegin
    \/ ParseFileOpenFails
    \/ ParseLineStep
    \/ ParseFileEnd
    \/ MainExit

Spec ==
    Init /\ [][Next]_vars

\* ------------------------------------------------------------------ claims
\* an axis word: an axis letter followed by a signed decimal literal
IsAxisWord(token) ==
    IsAxisLetter(token.c0) /\ token.rest.kind = "dec"

\* an axis letter followed by anything else
IsMalformed(token) ==
    IsAxisLetter(token.c0) /\ token.rest.kind # "dec"

HasAxisWord(line) ==
    \E k \in 1..Len(line) : IsAxisWord(line[k])

HasMalformed(line) ==
    \E k \in 1..Len(line) : IsMalformed(line[k])

Mentions(line, letter) ==
    \E k \in 1..Len(line) : IsAxisWord(line[k]) /\ line[k].c0 = letter

Zeros ==
    Vec3(Zero, Zero, Zero)

\* equal as numbers: -0.0 and 0.0 are, two non-finite values count as equal
SameValue(x, y) ==
    IF x.nan \/ y.nan THEN x.nan /\ y.nan
    ELSE SN(x) * y.d = SN(y) * x.d

NaNs ==
    Vec3(NaN, NaN, NaN)

IsIdentity(M) ==
    \A i \in 1..3 : \A j \in 1..3 :
        SameValue(M[i][j], IF i = j THEN One ELSE Zero)

\* the lines of the current source file that _parse_line has returned from
Processed ==
    IF idx = 0 \/ opened.failed # "" THEN 0 ELSE idx - 1

\* the latest _parse_line call has returned, and nothing has run since
Returned ==
    call.called /\ ~call.raised /\ opened.failed = ""

\* the latest _parse_line call, whether it returned or raised
Called ==
    call.called /\ opened.failed = ""

\* the loop of the current parse_file call has processed the last line
Completed ==
    pc = "lines" /\ idx > Len(f_in)

RECURSIVE TokensUpTo(_, _)
TokensUpTo(lines, i) ==
    IF i = 0 THEN <<>> ELSE TokensUpTo(lines, i - 1) \o Split(lines[i])

\* the value of the most recent axis word for the letter, 0 if there is none
LastAxis(tokens, letter) ==
    LET S == {k \in 1..Len(tokens) : IsAxisWord(tokens[k]) /\ tokens[k].c0 = letter}
    IN  IF S = {} THEN Zero
        ELSE Float(tokens[CHOOSE k \in S : \A j \in S : j <= k].rest).v

\* the nominal position after the first i lines of the session
Held(lines, i) ==
    LET tokens == TokensUpTo(lines, i)
    IN  Vec3(LastAxis(tokens, "X"), LastAxis(tokens, "Y"), LastAxis(tokens, "Z"))

\* the three axis tokens of round3(M * nominal), in the order X, Y, Z
Triple(M, nominal) ==
    [a \in 1..3 |-> Tok(XYZ[a], Format3(Round3(Dot(M[a], nominal))))]

AxisTokens(line) ==
    SelectSeq(Split(line), LAMBDA token : IsAxisLetter(token.c0))

\* the line the specification's per-line algorithm gives, and the nominal
\* position after it: axis words update the position, every other token is
\* passed through, the triple goes where the first axis word was
SpecLine(line, orig, M) ==
    LET tokens == Split(line)
        A == {k \in 1..Len(tokens) : IsAxisWord(tokens[k])}
        first == CHOOSE k \in A : \A j \in A : k <= j
        nominal == [a \in 1..3 |->
                      IF Mentions(tokens, XYZ[a]) THEN LastAxis(tokens, XYZ[a])
                      ELSE orig[a]]
        pass(seq) == SelectSeq(seq, LAMBDA token : ~IsAxisWord(token))
    IN  IF A = {}
        THEN [orig |-> orig, out |-> Join(tokens)]
        ELSE [orig |-> nominal,
              out |-> Join(SubSeq(tokens, 1, first - 1) \o Triple(M, nominal)
                           \o pass(SubSeq(tokens, first + 1, Len(tokens))))]

\* lines 1..k processed one after the other from the given position
RECURSIVE Run(_, _, _, _, _, _, _)
Run(lines, k, orig, trans, M, upper, lower) ==
    IF k = 0
    THEN [raised |-> FALSE, orig |-> orig, trans |-> trans, outs |-> <<>>]
    ELSE LET p == Run(lines, k - 1, orig, trans, M, upper, lower)
             r == parse_line(lines[k], p.orig, p.trans, M, upper, lower)
         IN  IF p.raised THEN p
             ELSE IF r.raised
             THEN [raised |-> TRUE, orig |-> r.orig, trans |-> r.trans,
                   outs |-> p.outs]
             ELSE [raised |-> FALSE, orig |-> r.orig, trans |-> r.trans,
                   outs |-> Append(p.outs, r.out)]

\* the file processed alone by a freshly configured Correction
Alone(lines, k) ==
    Run(lines, k, Zeros, NaNs, T, xyz_upper_limits, xyz_lower_limits)

\* C1: on every line a session has processed that holds an axis word, the
\* three axis tokens written are round3(T * nominal), where nominal holds for
\* each axis the value of the most recent axis word of the session so far, and
\* 0 for an axis never given; all three tokens are written
C1_HeldOverNominal ==
    \A i \in 1..Processed :
        HasAxisWord(f_in[i]) =>
            AxisTokens(f_out.lines[3 + i]) = Triple(T, Held(f_in, i))

\* a line that leaves out an axis an earlier line of the session has set
C1_Witness ==
    /\ Processed >= 2
    /\ ~HasNaN(T)
    /\ HasAxisWord(f_in[2])
    /\ ~Mentions(f_in[2], "Z")
    /\ ~IsZero(Held(f_in, 2)[3])
    /\ ~IsZero(T[1][3])

\* C2: a line holding an axis letter followed by something that is no signed
\* decimal does not make _parse_line fail; the token is passed through in its
\* place and the nominal position is not updated from it
C2_MalformedPassedThrough ==
    (Called /\ HasMalformed(call.line)) =>
        /\ ~call.raised
        /\ call.out = SpecLine(call.line, call.orig, T).out
        /\ xyz_original = SpecLine(call.line, call.orig, T).orig

\* C3: a line no token of which is an axis word is returned as its tokens
\* joined by single spaces, and leaves xyz_original and xyz_translated alone
C3_NoAxisLineUnchanged ==
    (Called /\ ~HasAxisWord(call.line)) =>
        /\ ~call.raised
        /\ call.out = Join(Split(call.line))
        /\ xyz_original = call.orig
        /\ xyz_translated = call.trans

\* C4: a line holding an axis word is returned as the tokens before the first
\* axis word, the three axis tokens X, Y, Z, then the remaining pass-through
\* tokens, no axis word of the input among them; with the identity matrix
\* "G1 X10.000 Y20.000 F100" gives "G1 X10.000 Y20.000 Z0.000 F100"
C4_LineReconstruction ==
    /\ (Called /\ HasAxisWord(call.line)) =>
          /\ ~call.raised
          /\ call.out = SpecLine(call.line, call.orig, T).out
    /\ (Returned /\ call.line = LnMove /\ IsIdentity(T) /\ call.orig = Zeros) =>
          call.out = Join(<<Num("G", 1), Tok("X", Dec(FALSE, 10000, 3)),
                            Tok("Y", Dec(FALSE, 20000, 3)),
                            Tok("Z", Dec(FALSE, 0, 3)), Num("F", 100)>>)

\* the rounded corrected position the latest call has validated
Validated ==
    Round3Vec(translate(T, xyz_original))

Warnings(kind, a) ==
    SelectSeq(log, LAMBDA w : w.kind = kind /\ w.axis = XYZ[a])

\* what the latest call does with limits that nothing violates
Unlimited ==
    parse_line(call.line, call.orig, call.trans, T, NaNs, NaNs)

LimitsDoNotMatter ==
    /\ call.out = Unlimited.out
    /\ xyz_original = Unlimited.orig
    /\ xyz_translated = Unlimited.trans

\* C5, as claimed: for each line and axis exactly one warning is logged iff
\* the rounded corrected value is above the upper or below the lower limit,
\* none otherwise, and the line and the position do not depend on the limits
C5_ExactlyOneWarning ==
    Returned =>
        /\ \A a \in 1..3 :
              Len(Warnings("above", a)) + Len(Warnings("below", a))
                = IF \/ FGt(Validated[a], xyz_upper_limits[a])
                     \/ FLt(Validated[a], xyz_lower_limits[a])
                  THEN 1 ELSE 0
        /\ LimitsDoNotMatter

\* C5, amended: for each line and axis one warning naming the axis, the value
\* and the upper limit is logged iff the value is strictly above the upper
\* limit, and one naming the lower limit iff it is strictly below the lower
\* limit; the line and the position do not depend on the limits
C5_OneWarningPerBound ==
    Returned =>
        /\ \A a \in 1..3 :
              /\ Warnings("above", a)
                   = IF FGt(Validated[a], xyz_upper_limits[a])
                     THEN <<Warning("above", a, Validated, xyz_upper_limits)>>
                     ELSE <<>>
              /\ Warnings("below", a)
                   = IF FLt(Validated[a], xyz_lower_limits[a])
                     THEN <<Warning("below", a, Validated, xyz_lower_limits)>>
                     ELSE <<>>
        /\ \A k \in 1..Len(log) : log[k].kind \in {"above", "below"}
        /\ LimitsDoNotMatter

\* one axis above its limit and warned about, another exactly at its limit
C5_Witness ==
    /\ Returned
    /\ \E a \in 1..3 : FGt(Validated[a], xyz_upper_limits[a])
    /\ \E a \in 1..3 : Validated[a] = xyz_upper_limits[a]
    /\ Len(log) = 1

\* the derived angle lies in (0, pi)
AngleInRange(angle) ==
    ~Cos(angle).nan /\ ~Sin(angle).nan /\ FGt(Sin(angle), Zero)

\* 1 - cos(angle_ac)^2 - t_y^2
Radicand ==
    LET t_y == FDiv(FSub(Cos(angle_bc), FMul(Cos(angle_ac), Cos(angle_ab))),
                    Sin(angle_ab))
    IN  FSub(FSub(One, FMul(Cos(angle_ac), Cos(angle_ac))), FMul(t_y, t_y))

\* C6: configuring fails, before any line is processed, whenever a derived
\* angle is outside (0, pi) or the row-2 radicand is not positive; a matrix
\* holding NaN is never handed to parse_file
C6_InvalidCalibrationRejected ==
    /\ (cfg.loaded /\ (~AngleInRange(angle_ab) \/ ~AngleInRange(angle_ac)
                       \/ ~AngleInRange(angle_bc) \/ ~FGt(Radicand, Zero)))
          => pc = "crashed"
    /\ pc \in {"main", "lines", "done"} => ~HasNaN(T)

\* C7: the lines a parse_file call after the first writes, and the position it
\* leaves, are those of the same file processed alone by a fresh Correction;
\* every call starts from the nominal position (0,0,0) and a reset corrected
\* position
C7_NoCrossFilePersistence ==
    (n_files >= 1 /\ pc \in {"lines", "crashed"} /\ opened.failed = "") =>
        /\ f_out.lines = Header \o Alone(f_in, Processed).outs
        /\ (pc = "lines" /\ idx = 1) =>
              (xyz_original = Zeros /\ xyz_translated = NaNs)
        /\ pc = "lines" =>
              /\ xyz_original = Alone(f_in, Processed).orig
              /\ xyz_translated = Alone(f_in, Processed).trans

\* a later file whose line leaves out an axis the file before has left at a
\* value other than 0
C7_Witness ==
    /\ n_files >= 1
    /\ pc = "lines"
    /\ ~HasNaN(T)
    /\ call.called
    /\ ~call.raised
    /\ HasAxisWord(call.line)
    /\ \E a \in carried : ~Mentions(call.line, XYZ[a])

\* two values agree at three decimals
SameRest(r1, r2) ==
    IF r1.kind = "dec" /\ r2.kind = "dec"
    THEN SameValue(Round3(Float(r1).v), Round3(Float(r2).v))
    ELSE r1 = r2

SameLine(l1, l2) ==
    /\ Len(l1) = Len(l2)
    /\ \A k \in 1..Len(l1) :
          l1[k].c0 = l2[k].c0 /\ SameRest(l1[k].rest, l2[k].rest)

\* C8: with the identity matrix, a line that _parse_line has returned in one
\* session is returned again, values compared at three decimals, when the
\* lines are processed a second time in a fresh session
C8_IdempotentUnderIdentity ==
    (again /\ IsIdentity(T)) =>
        \A i \in 4..Processed : SameLine(f_out.lines[3 + i], f_in[i])

\* a corrected file with a line of coordinates, corrected once more
C8_Witness ==
    /\ again
    /\ IsIdentity(T)
    /\ Completed
    /\ \E i \in 4..Len(f_in) : HasAxisWord(f_in[i])
    /\ \E i \in 5..Len(f_in) : ~Mentions(f_in[i], "X")

\* C9: the destination of a call that has processed its last line holds the
\* three header lines and then one line for each line of the source, the i-th
\* being what _parse_line returns for the i-th line from the position lines
\* 1..i-1 left
C9_OutputOrder ==
    Completed =>
        /\ Len(f_out.lines) = 3 + Len(f_in)
        /\ SubSeq(f_out.lines, 1, 3) = Header
        /\ \A i \in 1..Len(f_in) :
              LET before == Alone(f_in, i - 1)
              IN  f_out.lines[3 + i]
                    = parse_line(f_in[i], before.orig, before.trans, T,
                                 xyz_upper_limits, xyz_lower_limits).out

\* a file of two different lines of coordinates, processed to its end
C9_Witness ==
    /\ Completed
    /\ Len(f_in) >= 2
    /\ HasAxisWord(f_in[1])
    /\ HasAxisWord(f_in[2])
    /\ f_out.lines[4] # f_out.lines[5]

\* C10: when parse_file fails to open a file, xyz_original and xyz_translated
\* keep the values they had before the call, and a source that fails to open
\* leaves the destination as it was
C10_OpenFailureLeavesState ==
    (opened.failed # "" /\ opened.orig # <<>>) =>
        /\ xyz_original = opened.orig
        /\ xyz_translated = opened.trans
        /\ opened.failed = "source" => f_out = opened.dest

====
